---- MODULE Spec2Model ----
(***************************************************************************)
(* Model of mcp_server.py: the tool callbacks registered with the MCP      *)
(* server framework.  Four independent stores are modelled:                *)
(*   - the in-process document map `docs` (read/edit/list/fetch),          *)
(*   - the local filesystem (read_file / edit_file),                       *)
(*   - the external `todos` table reached through psycopg2,                *)
(*   - the weather service reached through requests.                       *)
(* Strings are sequences of one-character strings.                         *)
(***************************************************************************)
EXTENDS Integers, Sequences, FiniteSets, TLC

VARIABLES
    docs,       \* the module-level dict: a sequence of [key, value] in insertion order
    tasks,      \* read_document coroutines: position and argument of each
    history,    \* ghost: per document id, the (old_str, new_str) pairs applied so far
    n_calls,    \* ghost: number of tool calls completed so far
    ret,        \* outcome of the call that completed last
    todos,      \* the rows of the todos table, each <<id, title, description, completed, created_at>>
    next_id,    \* the next value of the table's id sequence
    open_conns, \* database connections opened by a call and not closed
    fs,         \* the filesystem: for each path, whether a file exists and its raw characters
    fs0,        \* ghost: the filesystem at start
    appended,   \* ghost: per path, the texts passed to edit_file so far
    linesep,    \* os.linesep of the platform
    upstream    \* the response the weather service gives to a request

doc_vars == <<docs, tasks, history>>
todo_vars == <<todos, next_id, open_conns>>
file_vars == <<fs, fs0, appended, linesep>>
vars == <<docs, tasks, history, n_calls, ret, todos, next_id, open_conns,
          fs, fs0, appended, linesep, upstream>>

Min(S) == CHOOSE x \in S : \A y \in S : x <= y

\* Python's None, SQL's NULL, JSON's null
None == "None"

----------------------------------------------------------------------------
(* Bounds of the exploration *)

MaxCalls == 2
MaxContentLen == 80
MaxTodoCalls == 3
MaxRows == 3
MaxFileCalls == 3
MaxFeatures == 2
MaxWeatherCalls == 1

----------------------------------------------------------------------------
(* Stores at rest, for the specifications that do not exercise them *)

TodosIdle == todos = {} /\ next_id = 1 /\ open_conns = 0

FilesIdle ==
    /\ fs = [p \in {} |-> 0]
    /\ fs0 = fs
    /\ appended = [p \in {} |-> <<>>]
    /\ linesep = <<"\n">>

WeatherIdle == upstream = <<>>

----------------------------------------------------------------------------
(* The document store, mcp_server.py lines 21-55 and 218-229 *)

SeedDocs ==
    <<
       [key |-> "deposition.md",
        value |-> <<"T","h","i","s"," ","d","e","p","o","s","i","t","i","o","n"," ","c","o","v","e","r","s"," ","t","h","e"," ","t","e","s","t","i","m","o","n","y"," ","o","f"," ","A","n","g","e","l","a"," ","S","m","i","t","h",","," ","P",".","E",".">>],
       [key |-> "report.pdf",
        value |-> <<"T","h","e"," ","r","e","p","o","r","t"," ","d","e","t","a","i","l","s"," ","t","h","e"," ","s","t","a","t","e"," ","o","f"," ","a"," ","2","0","m"," ","c","o","n","d","e","n","s","e","r"," ","t","o","w","e","r",".">>],
       [key |-> "financials.docx",
        value |-> <<"T","h","e","s","e"," ","f","i","n","a","n","c","i","a","l","s"," ","o","u","t","l","i","n","e"," ","t","h","e"," ","p","r","o","j","e","c","t","'","s"," ","b","u","d","g","e","t"," ","a","n","d"," ","e","x","p","e","n","d","i","t","u","r","e","s",".">>],
       [key |-> "outlook.pdf",
        value |-> <<"T","h","i","s"," ","d","o","c","u","m","e","n","t"," ","p","r","e","s","e","n","t","s"," ","t","h","e"," ","p","r","o","j","e","c","t","e","d"," ","f","u","t","u","r","e"," ","p","e","r","f","o","r","m","a","n","c","e"," ","o","f"," ","t","h","e"," ","s","y","s","t","e","m",".">>],
       [key |-> "plan.md",
        value |-> <<"T","h","e"," ","p","l","a","n"," ","o","u","t","l","i","n","e","s"," ","t","h","e"," ","s","t","e","p","s"," ","f","o","r"," ","t","h","e"," ","p","r","o","j","e","c","t","'","s"," ","i","m","p","l","e","m","e","n","t","a","t","i","o","n",".">>],
       [key |-> "spec.txt",
        value |-> <<"T","h","e","s","e"," ","s","p","e","c","i","f","i","c","a","t","i","o","n","s"," ","d","e","f","i","n","e"," ","t","h","e"," ","t","e","c","h","n","i","c","a","l"," ","r","e","q","u","i","r","e","m","e","n","t","s"," ","f","o","r"," ","t","h","e"," ","e","q","u","i","p","m","e","n","t",".">>]
    >>

DocIds == {SeedDocs[i].key : i \in DOMAIN SeedDocs}
UnknownId == "missing.md"

\* Python dict primitives on an insertion-ordered dict
dict_contains(d, k) == \E i \in DOMAIN d : d[i].key = k

dict_getitem(d, k) == d[CHOOSE i \in DOMAIN d : d[i].key = k].value

\* variant: the key is removed and inserted again, as del d[k]; d[k] = v would
dict_setitem_reinsert(d, k, v) ==
    LET kept == {i \in DOMAIN d : d[i].key # k}
        rank(i) == Cardinality({j \in kept : j <= i})
        rest == [n \in 1..Cardinality(kept) |-> d[CHOOSE i \in kept : rank(i) = n]]
    IN  Append(rest, [key |-> k, value |-> v])

dict_setitem(d, k, v) ==
    IF dict_contains(d, k)
    THEN [i \in DOMAIN d |-> IF d[i].key = k THEN [key |-> k, value |-> v] ELSE d[i]]
    ELSE Append(d, [key |-> k, value |-> v])

dict_keys(d) == [i \in DOMAIN d |-> d[i].key]

\* str.find: lowest index >= start at which sub occurs in s, 0 if there is none
str_find(s, sub, start) ==
    LET at == {i \in start..(Len(s) - Len(sub) + 1) : SubSeq(s, i, i + Len(sub) - 1) = sub}
    IN  IF at = {} THEN 0 ELSE Min(at)

\* the occurrences str.replace substitutes for a non-empty pattern: a
\* left-to-right search that resumes right after each match
RECURSIVE replace_scan(_, _, _)
replace_scan(s, old, start) ==
    LET i == str_find(s, old, start)
    IN  IF i = 0 THEN {} ELSE {i} \cup replace_scan(s, old, i + Len(old))

\* the empty pattern matches before every character and at the end
replace_positions(s, old) ==
    IF old = <<>> THEN 1..(Len(s) + 1) ELSE replace_scan(s, old, 1)

\* empty pattern: new is interleaved with the characters of s
replace_interleave(s, new) ==
    LET w == Len(new) + 1
    IN  [j \in 1..(Len(s) * w + Len(new)) |->
            IF (j - 1) % w < Len(new) THEN new[((j - 1) % w) + 1]
                                      ELSE s[((j - 1) \div w) + 1]]

\* non-empty pattern: copy up to each match, emit new, resume after the match
RECURSIVE replace_build(_, _, _, _)
replace_build(s, old, new, start) ==
    LET i == str_find(s, old, start)
    IN  IF i = 0 THEN SubSeq(s, start, Len(s))
        ELSE SubSeq(s, start, i - 1) \o new \o replace_build(s, old, new, i + Len(old))

\* variant: only the first occurrence is replaced, as replace(old, new, 1) would
str_replace_first(s, old, new) ==
    LET i == str_find(s, old, 1)
    IN  IF i = 0 THEN s
        ELSE SubSeq(s, 1, i - 1) \o new \o SubSeq(s, i + Len(old), Len(s))

str_replace(s, old, new) ==
    IF old = <<>> THEN replace_interleave(s, new) ELSE replace_build(s, old, new, 1)

NoRet == [op |-> "none", doc_id |-> "", status |-> "", value |-> <<>>,
          orig |-> <<>>, old_str |-> <<>>, new_str |-> <<>>, at |-> {},
          before |-> <<>>, raced |-> FALSE]

\* the coroutines that may run read_document at the same time
Tasks == {"t1", "t2"}

\* read_document up to its await: the membership test, then suspension in ctx.info
read_document_call(t, doc_id) ==
    /\ tasks[t].pc = "idle"
    /\ n_calls < MaxCalls
    /\ IF ~ dict_contains(docs, doc_id)
       THEN /\ ret' = [NoRet EXCEPT !.op = "read_document", !.doc_id = doc_id,
                                    !.status = "NotFound", !.before = docs]
            /\ n_calls' = n_calls + 1
            /\ UNCHANGED <<tasks, todo_vars, file_vars, upstream>>
       ELSE /\ tasks' = [tasks EXCEPT ![t] = [pc |-> "awaiting", doc_id |-> doc_id,
                                              seen |-> Len(history[doc_id])]]
            /\ UNCHANGED <<ret, n_calls>>
    /\ UNCHANGED <<docs, history, todo_vars, file_vars, upstream>>

\* variant: the content is taken from the static table, not from the store
read_document_resume_stale(t) ==
    /\ tasks[t].pc = "awaiting"
    /\ ret' = [NoRet EXCEPT !.op = "read_document", !.doc_id = tasks[t].doc_id,
                            !.status = "ok",
                            !.value = dict_getitem(SeedDocs, tasks[t].doc_id),
                            !.before = docs,
                            !.raced = Len(history[tasks[t].doc_id]) > tasks[t].seen]
    /\ tasks' = [tasks EXCEPT ![t] = [pc |-> "idle", doc_id |-> "", seen |-> 0]]
    /\ n_calls' = n_calls + 1
    /\ UNCHANGED <<docs, history, todo_vars, file_vars, upstream>>

\* read_document after the await: return docs[doc_id]
read_document_resume(t) ==
    /\ tasks[t].pc = "awaiting"
    /\ ret' = IF dict_contains(docs, tasks[t].doc_id)
              THEN [NoRet EXCEPT !.op = "read_document", !.doc_id = tasks[t].doc_id,
                                 !.status = "ok",
                                 !.value = dict_getitem(docs, tasks[t].doc_id),
                                 !.before = docs,
                                 !.raced = Len(history[tasks[t].doc_id]) > tasks[t].seen]
              ELSE [NoRet EXCEPT !.op = "read_document", !.doc_id = tasks[t].doc_id,
                                 !.status = "KeyError", !.before = docs]
    /\ tasks' = [tasks EXCEPT ![t] = [pc |-> "idle", doc_id |-> "", seen |-> 0]]
    /\ n_calls' = n_calls + 1
    /\ UNCHANGED <<docs, history, todo_vars, file_vars, upstream>>

edit_document(doc_id, old_str, new_str) ==
    /\ n_calls < MaxCalls
    /\ IF ~ dict_contains(docs, doc_id)
       THEN /\ ret' = [NoRet EXCEPT !.op = "edit_document", !.doc_id = doc_id,
                                    !.status = "NotFound", !.before = docs,
                                    !.old_str = old_str, !.new_str = new_str]
            /\ UNCHANGED <<docs, history, todo_vars, file_vars, upstream>>
       ELSE LET orig == dict_getitem(docs, doc_id)
                res  == str_replace(orig, old_str, new_str)
            IN  /\ Len(res) <= MaxContentLen
                /\ docs' = dict_setitem(docs, doc_id, res)
                /\ history' = [history EXCEPT ![doc_id] = Append(@, <<old_str, new_str>>)]
                /\ ret' = [NoRet EXCEPT !.op = "edit_document", !.doc_id = doc_id,
                                        !.status = "ok", !.value = res, !.orig = orig,
                                        !.old_str = old_str, !.new_str = new_str,
                                        !.at = replace_positions(orig, old_str),
                                        !.before = docs]
    /\ n_calls' = n_calls + 1
    /\ UNCHANGED <<tasks, todo_vars, file_vars, upstream>>

list_docs ==
    /\ n_calls < MaxCalls
    /\ ret' = [NoRet EXCEPT !.op = "list_docs", !.status = "ok", !.value = dict_keys(docs),
                            !.before = docs]
    /\ n_calls' = n_calls + 1
    /\ UNCHANGED <<doc_vars, todo_vars, file_vars, upstream>>

\* variant: a missing id reads as the empty document, as docs.get(doc_id, "") would
fetch_doc_default(doc_id) ==
    /\ n_calls < MaxCalls
    /\ ret' = [NoRet EXCEPT !.op = "fetch_doc", !.doc_id = doc_id, !.status = "ok",
                            !.value = IF dict_contains(docs, doc_id)
                                      THEN dict_getitem(docs, doc_id) ELSE <<>>,
                            !.before = docs]
    /\ n_calls' = n_calls + 1
    /\ UNCHANGED <<doc_vars, todo_vars, file_vars, upstream>>

fetch_doc(doc_id) ==
    /\ n_calls < MaxCalls
    /\ ret' = IF ~ dict_contains(docs, doc_id)
              THEN [NoRet EXCEPT !.op = "fetch_doc", !.doc_id = doc_id,
                                 !.status = "NotFound", !.before = docs]
              ELSE [NoRet EXCEPT !.op = "fetch_doc", !.doc_id = doc_id, !.status = "ok",
                                 !.value = dict_getitem(docs, doc_id), !.before = docs]
    /\ n_calls' = n_calls + 1
    /\ UNCHANGED <<doc_vars, todo_vars, file_vars, upstream>>

\* argument strings offered to edit_document; the whole current content is offered too
OldPool == {<<>>, <<"e">>, <<"e", "e">>}
NewPool == {<<>>, <<"e", "e", "e">>}
\* ids offered to read_document and edit_document; fetch_doc is offered every id
CallIds == {"deposition.md", "plan.md", UnknownId}

\* the state of the stores a specification leaves alone
DocsAtStart ==
    /\ docs = SeedDocs
    /\ tasks = [t \in Tasks |-> [pc |-> "idle", doc_id |-> "", seen |-> 0]]
    /\ history = [k \in DocIds |-> <<>>]

Init ==
    /\ DocsAtStart
    /\ n_calls = 0
    /\ ret = NoRet
    /\ TodosIdle
    /\ FilesIdle
    /\ WeatherIdle

\* one read_document at a time, beside the other document calls
Next ==
    \/ \E k \in CallIds : read_document_call("t1", k)
    \/ read_document_resume("t1")
    \/ \E k \in CallIds, new \in NewPool :
         \E old \in OldPool \cup {IF dict_contains(docs, k) THEN dict_getitem(docs, k) ELSE <<>>} :
            edit_document(k, old, new)
    \/ list_docs
    \/ \E k \in DocIds \cup {UnknownId} : fetch_doc(k)

Spec == Init /\ [][Next]_vars

\* several read_document calls suspended at once while edits run
NextAsync ==
    \/ \E t \in Tasks, k \in CallIds : read_document_call(t, k)
    \/ \E t \in Tasks : read_document_resume(t)
    \/ \E k \in CallIds, new \in NewPool :
         \E old \in OldPool \cup {IF dict_contains(docs, k) THEN dict_getitem(docs, k) ELSE <<>>} :
            edit_document(k, old, new)

SpecAsync == Init /\ [][NextAsync]_vars

----------------------------------------------------------------------------
(* Properties of the document store *)

IsRead == ret.op \in {"read_document", "fetch_doc"}

\* C1: a completed read_document or fetch_doc failed with NotFound exactly when
\* its doc_id is not a key of the store, otherwise it returned the content the
\* store holds under doc_id, and the store is as it was before the call's step.
C1_ReadContract ==
    IsRead =>
        /\ docs = ret.before
        /\ IF \E i \in DOMAIN docs : docs[i].key = ret.doc_id
           THEN /\ ret.status = "ok"
                /\ \A i \in DOMAIN docs : docs[i].key = ret.doc_id => ret.value = docs[i].value
           ELSE ret.status = "NotFound"

\* a fetch of a document whose content an earlier edit changed
C1_Witness ==
    /\ ret.op = "fetch_doc"
    /\ ret.status = "ok"
    /\ history[ret.doc_id] # <<>>
    /\ ret.value # dict_getitem(SeedDocs, ret.doc_id)

IsEdit == ret.op = "edit_document" /\ ret.status = "ok"

\* every index at which sub occurs in s, overlapping occurrences included
AllOccurrences(s, sub) ==
    {i \in 1..(Len(s) - Len(sub) + 1) : SubSeq(s, i, i + Len(sub) - 1) = sub}

\* res is s with the occurrence of old at every index of P replaced by new:
\* the occurrences of P do not overlap, each one's place in res holds new, and
\* every character outside them is kept, moved by the replacements before it
IsReplacementAt(s, old, new, P, res) ==
    LET d == Len(new) - Len(old)
        before(i) == Cardinality({q \in P : q < i})
        upto(i)   == Cardinality({q \in P : q <= i})
    IN  /\ \A p, q \in P : p < q => p + Len(old) <= q
        /\ Len(res) = Len(s) + d * Cardinality(P)
        /\ \A p \in P :
              SubSeq(res, p + d * before(p), p + d * before(p) + Len(new) - 1) = new
        /\ \A i \in 1..Len(s) :
              (~ \E q \in P : q <= i /\ i < q + Len(old))
                  => res[i + d * upto(i)] = s[i]

\* C2 as stated: the stored content is the original with every literal
\* occurrence of old_str replaced by new_str.
C2_EveryOccurrenceReplaced ==
    IsEdit =>
        /\ dict_getitem(docs, ret.doc_id) = ret.value
        /\ IsReplacementAt(ret.orig, ret.old_str, ret.new_str,
                           AllOccurrences(ret.orig, ret.old_str), ret.value)

\* P holds the occurrences a left-to-right search takes: an occurrence is
\* taken exactly when no taken occurrence before it runs into it
IsLeftmostDisjoint(P, occ, n) ==
    /\ P \subseteq occ
    /\ \A p \in occ : p \in P <=> ~ \E q \in P : q < p /\ p < q + n

\* C2 amended: the stored content is the original with new_str in place of the
\* occurrences of old_str found scanning left to right and resuming after each
\* match (for the empty old_str: before every character and at the end); that
\* is every occurrence when no two overlap, the single one when there is one,
\* and none, the content unchanged, when old_str does not occur.
C2_LeftmostOccurrencesReplaced ==
    IsEdit =>
        LET occ == AllOccurrences(ret.orig, ret.old_str)
        IN  /\ dict_getitem(docs, ret.doc_id) = ret.value
            /\ IsLeftmostDisjoint(ret.at, occ, Len(ret.old_str))
            /\ IsReplacementAt(ret.orig, ret.old_str, ret.new_str, ret.at, ret.value)
            /\ (\A p, q \in occ : p < q => p + Len(ret.old_str) <= q) => ret.at = occ
            /\ occ = {} => ret.value = ret.orig
            /\ \A p \in occ : occ = {p} =>
                  ret.value = SubSeq(ret.orig, 1, p - 1) \o ret.new_str
                              \o SubSeq(ret.orig, p + Len(ret.old_str), Len(ret.orig))

\* an edit whose old_str occurs at overlapping places, one of which is replaced
C2_Witness ==
    /\ IsEdit
    /\ ret.at # {}
    /\ ret.at # AllOccurrences(ret.orig, ret.old_str)
    /\ ret.value # ret.orig

SeedIds == <<"deposition.md", "report.pdf", "financials.docx", "outlook.pdf", "plan.md",
             "spec.txt">>

\* C3: the store's keys are the six seeded ids in the order of the static
\* table, whatever calls were made, and list_docs returns exactly them.
C3_KeysInvariant ==
    /\ Len(docs) = Len(SeedIds)
    /\ \A i \in DOMAIN docs : docs[i].key = SeedIds[i]
    /\ ret.op = "list_docs" => ret.status = "ok" /\ ret.value = SeedIds

\* list_docs after a document other than the last was edited
C3_Witness ==
    /\ ret.op = "list_docs"
    /\ \E i \in 1..(Len(SeedIds) - 1) : history[SeedIds[i]] # <<>>

\* the content of document k after the edits of h, applied in order to s
RECURSIVE ApplyEdits(_, _)
ApplyEdits(s, h) ==
    IF h = <<>> THEN s
    ELSE ApplyEdits(str_replace(s, h[1][1], h[1][2]), Tail(h))

\* C10: a read_document that passed the membership test never fails on the
\* missing key when it resumes and returns the content stored at that moment,
\* which is the seed content with every completed edit applied, in order: no
\* edit is lost.
C10_SuspendedReadSeesLatest ==
    /\ \A k \in DocIds :
          /\ dict_contains(docs, k)
          /\ dict_getitem(docs, k) = ApplyEdits(dict_getitem(SeedDocs, k), history[k])
    /\ ret.op = "read_document" =>
          /\ ret.status \in {"ok", "NotFound"}
          /\ ret.status = "ok" =>
                ret.value = ApplyEdits(dict_getitem(SeedDocs, ret.doc_id),
                                       history[ret.doc_id])
    /\ \A t \in Tasks : tasks[t].pc = "awaiting" => dict_contains(docs, tasks[t].doc_id)

\* a read_document resumed after an edit of its document completed while it
\* was suspended, returning the edited content, with another read still suspended
C10_Witness ==
    /\ ret.op = "read_document"
    /\ ret.status = "ok"
    /\ ret.raced
    /\ ret.value # dict_getitem(SeedDocs, ret.doc_id)
    /\ \E t \in Tasks : tasks[t].pc = "awaiting"

----------------------------------------------------------------------------
(* The todos table, mcp_server.py lines 85-182.  The table lives in an      *)
(* external PostgreSQL database; its schema is not part of the repository.  *)

\* the columns of the table in the order SELECT * returns them
TodoColumns == <<"id", "title", "description", "completed", "created_at">>

column(name) == CHOOSE i \in DOMAIN TodoColumns : TodoColumns[i] = name

\* the row INSERT (title, description) creates: the other columns take their defaults
inserted_row(id, title, description) ==
    [i \in DOMAIN TodoColumns |->
        CASE i = column("id")          -> id
          [] i = column("title")       -> title
          [] i = column("description") -> description
          [] i = column("completed")   -> FALSE
          [] i = column("created_at")  -> id]

\* variant: a title already in the table is not inserted again
sql_insert_unique(table, id, title, description) ==
    IF \E r \in table : r[column("title")] = title
    THEN table
    ELSE table \cup {inserted_row(id, title, description)}

\* INSERT INTO todos (title, description) VALUES (%s, %s)
sql_insert(table, id, title, description) ==
    table \cup {inserted_row(id, title, description)}

\* WHERE title = %s
sql_where_title(table, title) == {r \in table : r[column("title")] = title}

\* variant: only the matching row with the lowest id is updated
sql_update_completed_one(table, title) ==
    LET hit == sql_where_title(table, title)
    IN  {IF r \in hit /\ \A q \in hit : r[column("id")] <= q[column("id")]
         THEN [r EXCEPT ![column("completed")] = TRUE] ELSE r : r \in table}

\* UPDATE todos SET completed = TRUE WHERE title = %s
sql_update_completed(table, title) ==
    {IF r \in sql_where_title(table, title)
     THEN [r EXCEPT ![column("completed")] = TRUE] ELSE r : r \in table}

\* variant: only the matching row with the lowest id is deleted
sql_delete_one(table, title) ==
    LET hit == sql_where_title(table, title)
    IN  table \ {r \in hit : \A q \in hit : r[column("id")] <= q[column("id")]}

\* DELETE FROM todos WHERE title = %s
sql_delete(table, title) == table \ sql_where_title(table, title)

\* the dictionary read_todos builds from row[0] .. row[4]
todo_record(row) ==
    [id |-> row[1], title |-> row[2], description |-> row[3],
     is_completed |-> row[4], created_at |-> row[5]]

\* the orders in which SELECT * may deliver the rows of the table
Orderings(table) ==
    {o \in [1..Cardinality(table) -> table] :
        \A i, j \in 1..Cardinality(table) : i # j => o[i] # o[j]}

TodoNoRet == [op |-> "none", title |-> "", description |-> "", status |-> "",
              rows |-> <<>>, before |-> {}, rowcount |-> 0,
              prev |-> [op |-> "none", title |-> "", description |-> "", status |-> ""]]

TodoRet(op, title, description, status) ==
    [TodoNoRet EXCEPT !.op = op, !.title = title, !.description = description,
                      !.status = status, !.before = todos,
                      !.prev = [op |-> ret.op, title |-> ret.title,
                                description |-> ret.description, status |-> ret.status]]

\* psycopg2.connect, cursor.execute or conn.commit may raise; "none": none does
Faults == {"none", "connect", "execute", "commit"}

\* connections left open by a call that connects and ends as `fault` says:
\* conn.close() is reached only when nothing raised before it
conns_after(fault) ==
    CASE fault = "connect" -> open_conns
      [] fault = "none"    -> (open_conns + 1) - 1
      [] OTHER             -> open_conns + 1

read_todos(fault) ==
    /\ n_calls < MaxTodoCalls
    /\ fault # "commit"
    /\ IF fault = "none"
       THEN \E o \in Orderings(todos) :
               ret' = [TodoRet("read_todos", "", "", "ok") EXCEPT
                          !.rows = [i \in DOMAIN o |-> todo_record(o[i])]]
       ELSE ret' = TodoRet("read_todos", "", "", "DatabaseError")
    /\ open_conns' = conns_after(fault)
    /\ n_calls' = n_calls + 1
    /\ UNCHANGED <<todos, next_id, doc_vars, file_vars, upstream>>

add_todo(title, description, fault) ==
    /\ n_calls < MaxTodoCalls
    /\ Cardinality(todos) < MaxRows
    /\ IF fault = "none"
       THEN /\ todos' = sql_insert(todos, next_id, title, description)
            /\ next_id' = next_id + 1
            /\ ret' = TodoRet("add_todo", title, description, "ok")
       ELSE /\ ret' = TodoRet("add_todo", title, description, "DatabaseError")
            /\ UNCHANGED <<todos, next_id>>
    /\ open_conns' = conns_after(fault)
    /\ n_calls' = n_calls + 1
    /\ UNCHANGED <<doc_vars, file_vars, upstream>>

complete_todo(title, fault) ==
    /\ n_calls < MaxTodoCalls
    /\ IF fault = "none"
       THEN LET updated_rows == Cardinality(sql_where_title(todos, title))
            IN  /\ todos' = sql_update_completed(todos, title)
                /\ ret' = [TodoRet("complete_todo", title, "",
                                   IF updated_rows = 0 THEN "NotFound" ELSE "ok")
                              EXCEPT !.rowcount = updated_rows]
       ELSE /\ ret' = TodoRet("complete_todo", title, "", "DatabaseError")
            /\ UNCHANGED todos
    /\ open_conns' = conns_after(fault)
    /\ n_calls' = n_calls + 1
    /\ UNCHANGED <<next_id, doc_vars, file_vars, upstream>>

delete_todo(title, fault) ==
    /\ n_calls < MaxTodoCalls
    /\ IF fault = "none"
       THEN LET updated_rows == Cardinality(sql_where_title(todos, title))
            IN  /\ todos' = sql_delete(todos, title)
                /\ ret' = [TodoRet("delete_todo", title, "",
                                   IF updated_rows = 0 THEN "NotFound" ELSE "ok")
                              EXCEPT !.rowcount = updated_rows]
       ELSE /\ ret' = TodoRet("delete_todo", title, "", "DatabaseError")
            /\ UNCHANGED todos
    /\ open_conns' = conns_after(fault)
    /\ n_calls' = n_calls + 1
    /\ UNCHANGED <<next_id, doc_vars, file_vars, upstream>>

Titles == {"X", "Z"}
Descriptions == {"Y", None}

\* tables the database may hold when the server starts
InitialTables ==
    { {},
      {<<1, "X", "Y", FALSE, 1>>, <<2, "X", None, TRUE, 2>>, <<3, "Z", "Y", FALSE, 3>>} }

InitTodo ==
    /\ DocsAtStart
    /\ FilesIdle
    /\ WeatherIdle
    /\ n_calls = 0
    /\ ret = TodoNoRet
    /\ todos \in InitialTables
    /\ next_id = Cardinality(todos) + 1
    /\ open_conns = 0

\* the database answers every statement
NextTodo ==
    \/ read_todos("none")
    \/ \E t \in Titles, d \in Descriptions : add_todo(t, d, "none")
    \/ \E t \in Titles : complete_todo(t, "none")
    \/ \E t \in Titles : delete_todo(t, "none")

SpecTodo == InitTodo /\ [][NextTodo]_vars

\* the database may fail a connection attempt, a statement or a commit
NextTodoFaulty ==
    \/ \E f \in Faults : read_todos(f)
    \/ \E t \in Titles, d \in Descriptions, f \in Faults : add_todo(t, d, f)
    \/ \E t \in Titles, f \in Faults : complete_todo(t, f)
    \/ \E t \in Titles, f \in Faults : delete_todo(t, f)

SpecTodoFaulty == InitTodo /\ [][NextTodoFaulty]_vars

----------------------------------------------------------------------------
(* Properties of the todo operations *)

TitleOf(r) == r[column("title")]
OtherTitles(table, title) == {r \in table : TitleOf(r) # title}
\* a row without its completed column
Uncompleted(r) == [i \in DOMAIN r \ {column("completed")} |-> r[i]]

ReadAfter(op) ==
    /\ ret.op = "read_todos" /\ ret.status = "ok"
    /\ ret.prev.op = op /\ ret.prev.status = "ok"

\* C4: complete_todo fails with NotFound and leaves the table unchanged when
\* no row has the title; otherwise it succeeds, every row with the title is
\* completed, no row is added or removed, rows with other titles and the other
\* columns are unchanged, and the read_todos that follows reports
\* is_completed true for every record with the title.
C4_CompleteTodo ==
    /\ ret.op = "complete_todo" =>
          LET hit == {r \in ret.before : TitleOf(r) = ret.title}
          IN  IF hit = {}
              THEN ret.status = "NotFound" /\ todos = ret.before
              ELSE /\ ret.status = "ok"
                   /\ \A r \in todos : TitleOf(r) = ret.title => r[column("completed")] = TRUE
                   /\ OtherTitles(todos, ret.title) = OtherTitles(ret.before, ret.title)
                   /\ {Uncompleted(r) : r \in todos} = {Uncompleted(r) : r \in ret.before}
                   /\ Cardinality(todos) = Cardinality(ret.before)
    /\ ReadAfter("complete_todo") =>
          /\ \E i \in DOMAIN ret.rows : ret.rows[i].title = ret.prev.title
          /\ \A i \in DOMAIN ret.rows :
                ret.rows[i].title = ret.prev.title => ret.rows[i].is_completed = TRUE

\* a read after completing a title that two rows share, one of them not yet
\* completed, beside a row with another title that stays uncompleted
C4_Witness ==
    /\ ReadAfter("complete_todo")
    /\ Cardinality({i \in DOMAIN ret.rows : ret.rows[i].title = ret.prev.title}) >= 2
    /\ \E i \in DOMAIN ret.rows :
          ret.rows[i].title # ret.prev.title /\ ret.rows[i].is_completed = FALSE

\* C5: delete_todo fails with NotFound and leaves the table unchanged when no
\* row has the title; otherwise it removes every row with the title, leaves
\* every other row unchanged, and the read_todos that follows returns no
\* record with the title.
C5_DeleteTodo ==
    /\ ret.op = "delete_todo" =>
          LET hit == {r \in ret.before : TitleOf(r) = ret.title}
          IN  IF hit = {}
              THEN ret.status = "NotFound" /\ todos = ret.before
              ELSE /\ ret.status = "ok"
                   /\ \A r \in todos : TitleOf(r) # ret.title
                   /\ todos = OtherTitles(ret.before, ret.title)
    /\ ReadAfter("delete_todo") =>
          /\ \A i \in DOMAIN ret.rows : ret.rows[i].title # ret.prev.title
          /\ {ret.rows[i].id : i \in DOMAIN ret.rows} = {r[column("id")] : r \in todos}

\* a delete of a title that several rows share, with another row left
C5_Witness ==
    /\ ret.op = "delete_todo" /\ ret.status = "ok"
    /\ ret.rowcount >= 2
    /\ todos # {}

\* C6: add_todo inserts exactly one new row, whatever rows exist, and leaves
\* the existing rows unchanged; the read_todos that follows yields a record
\* with the given title and description and is_completed false, and one
\* record per row of the table.
C6_AddTodo ==
    /\ ret.op = "add_todo" /\ ret.status = "ok" =>
          /\ ret.before \subseteq todos
          /\ Cardinality(todos) = Cardinality(ret.before) + 1
          /\ \A r \in todos \ ret.before :
                /\ todo_record(r).title = ret.title
                /\ todo_record(r).description = ret.description
                /\ todo_record(r).is_completed = FALSE
                /\ \A q \in ret.before : q[column("id")] # r[column("id")]
    /\ ReadAfter("add_todo") =>
          /\ Len(ret.rows) = Cardinality(todos)
          /\ \E i \in DOMAIN ret.rows :
                /\ ret.rows[i].title = ret.prev.title
                /\ ret.rows[i].description = ret.prev.description
                /\ ret.rows[i].is_completed = FALSE

\* a read after adding a todo whose title other rows already carry
C6_Witness ==
    /\ ReadAfter("add_todo")
    /\ Cardinality({i \in DOMAIN ret.rows : ret.rows[i].title = ret.prev.title}) >= 2

\* C7: between calls no database connection is open, also after calls that
\* raised NotFound or a database error.
C7_NoConnectionLeft == open_conns = 0

----------------------------------------------------------------------------
(* read_file and edit_file, mcp_server.py lines 58-82.  Both open the file  *)
(* in text mode with the default newline handling.                          *)

Paths == {"notes.txt", "new.txt"}

NoFile == [exists |-> FALSE, data |-> <<>>]

\* text-mode write: every "\n" is written as os.linesep
RECURSIVE write_translate(_, _)
write_translate(text, sep) ==
    IF text = <<>> THEN <<>>
    ELSE (IF Head(text) = "\n" THEN sep ELSE <<Head(text)>>)
         \o write_translate(Tail(text), sep)

\* text-mode read with universal newlines: "\r\n" and a lone "\r" are read as "\n"
RECURSIVE read_translate(_)
read_translate(data) ==
    IF data = <<>> THEN <<>>
    ELSE IF Head(data) = "\r"
         THEN IF Len(data) >= 2 /\ data[2] = "\n"
              THEN <<"\n">> \o read_translate(Tail(Tail(data)))
              ELSE <<"\n">> \o read_translate(Tail(data))
         ELSE <<Head(data)>> \o read_translate(Tail(data))

FileNoRet == [op |-> "none", file_name |-> "", status |-> "", value |-> <<>>,
              before |-> [p \in {} |-> 0]]

read_file(file_name) ==
    /\ n_calls < MaxFileCalls
    /\ ret' = IF fs[file_name].exists
              THEN [FileNoRet EXCEPT !.op = "read_file", !.file_name = file_name,
                                     !.status = "ok",
                                     !.value = read_translate(fs[file_name].data),
                                     !.before = fs]
              ELSE [FileNoRet EXCEPT !.op = "read_file", !.file_name = file_name,
                                     !.status = "NotFound", !.before = fs]
    /\ n_calls' = n_calls + 1
    /\ UNCHANGED <<fs, fs0, appended, linesep, doc_vars, todo_vars, upstream>>

\* variant: the file is opened with "w", which truncates it
edit_file_truncating(file_name, new_text) ==
    /\ n_calls < MaxFileCalls
    /\ fs' = [fs EXCEPT ![file_name] =
                 [exists |-> TRUE, data |-> write_translate(new_text, linesep)]]
    /\ appended' = [appended EXCEPT ![file_name] = Append(@, new_text)]
    /\ ret' = [FileNoRet EXCEPT !.op = "edit_file", !.file_name = file_name,
                                !.status = "ok", !.before = fs]
    /\ n_calls' = n_calls + 1
    /\ UNCHANGED <<fs0, linesep, doc_vars, todo_vars, upstream>>

\* open(file_name, "a") creates a missing file and positions every write at the end
edit_file(file_name, new_text) ==
    /\ n_calls < MaxFileCalls
    /\ fs' = [fs EXCEPT ![file_name] =
                 [exists |-> TRUE, data |-> @.data \o write_translate(new_text, linesep)]]
    /\ appended' = [appended EXCEPT ![file_name] = Append(@, new_text)]
    /\ ret' = [FileNoRet EXCEPT !.op = "edit_file", !.file_name = file_name,
                                !.status = "ok", !.before = fs]
    /\ n_calls' = n_calls + 1
    /\ UNCHANGED <<fs0, linesep, doc_vars, todo_vars, upstream>>

Texts == {<<>>, <<"b">>, <<"\n">>, <<"\r">>, <<"c", "\n">>}

\* what the first path may hold at start; the second path does not exist
InitialData == {<<"a">>, <<"a", "\n">>, <<"a", "\r">>}

InitFile ==
    /\ DocsAtStart
    /\ TodosIdle
    /\ WeatherIdle
    /\ n_calls = 0
    /\ ret = FileNoRet
    /\ \E d \in InitialData :
          fs = [p \in Paths |-> IF p = "notes.txt" THEN [exists |-> TRUE, data |-> d]
                                                   ELSE NoFile]
    /\ fs0 = fs
    /\ appended = [p \in Paths |-> <<>>]
    /\ linesep \in {<<"\n">>, <<"\r", "\n">>}

NextFile ==
    \/ \E p \in Paths : read_file(p)
    \/ \E p \in Paths, t \in Texts : edit_file(p, t)

SpecFile == InitFile /\ [][NextFile]_vars

----------------------------------------------------------------------------
(* Properties of the file operations *)

RECURSIVE Concat(_)
Concat(texts) == IF texts = <<>> THEN <<>> ELSE Head(texts) \o Concat(Tail(texts))

HasCR(text) == \E i \in DOMAIN text : text[i] = "\r"

IsFileRead == ret.op = "read_file"

\* C9 as stated: read_file returns the file's previous content followed by the
\* texts of the edit_file calls in call order; on a missing path it fails with
\* NotFound and creates nothing; edit_file keeps the existing content.
C9_ReadReturnsAppendedTexts ==
    /\ IsFileRead =>
          /\ fs = ret.before
          /\ IF fs0[ret.file_name].exists \/ appended[ret.file_name] # <<>>
             THEN /\ ret.status = "ok"
                  /\ ret.value = read_translate(fs0[ret.file_name].data)
                                 \o Concat(appended[ret.file_name])
             ELSE ret.status = "NotFound" /\ ~ fs[ret.file_name].exists
    /\ ret.op = "edit_file" =>
          \A p \in Paths :
             /\ ret.before[p].exists => fs[p].exists
             /\ SubSeq(fs[p].data, 1, Len(ret.before[p].data)) = ret.before[p].data

\* C9 amended: read_file returns the universal-newline reading ("\r\n" and a
\* lone "\r" read as "\n") of the file's raw content, which is the previous raw
\* content followed by the texts in call order, each "\n" written as the line
\* separator; this is the previous content followed by the texts when neither
\* holds a carriage return.  A missing path fails with NotFound and is not
\* created; edit_file creates a missing file and keeps the existing content.
C9_ReadReturnsTranslatedAppends ==
    /\ \A p \in Paths :
          /\ fs[p].exists <=> (fs0[p].exists \/ appended[p] # <<>>)
          /\ fs[p].data =
                fs0[p].data \o Concat([i \in DOMAIN appended[p] |->
                                          write_translate(appended[p][i], linesep)])
    /\ IsFileRead =>
          /\ fs = ret.before
          /\ IF fs0[ret.file_name].exists \/ appended[ret.file_name] # <<>>
             THEN /\ ret.status = "ok"
                  /\ ret.value = read_translate(fs[ret.file_name].data)
                  /\ (~ HasCR(fs0[ret.file_name].data)
                        /\ \A i \in DOMAIN appended[ret.file_name] :
                              ~ HasCR(appended[ret.file_name][i]))
                     => ret.value = fs0[ret.file_name].data
                                    \o Concat(appended[ret.file_name])
                  /\ ~ HasCR(ret.value)
             ELSE ret.status = "NotFound" /\ ~ fs[ret.file_name].exists
    /\ ret.op = "edit_file" =>
          \A p \in Paths :
             /\ ret.before[p].exists => fs[p].exists
             /\ SubSeq(fs[p].data, 1, Len(ret.before[p].data)) = ret.before[p].data
             /\ p # ret.file_name => fs[p] = ret.before[p]

\* a read of a file that did not exist and was created by the first of two
\* edit_file calls, returning both texts in order
C9_Witness ==
    /\ IsFileRead /\ ret.status = "ok"
    /\ ~ fs0[ret.file_name].exists
    /\ Len(appended[ret.file_name]) = 2
    /\ appended[ret.file_name][1] # appended[ret.file_name][2]
    /\ appended[ret.file_name][1] # <<>> /\ appended[ret.file_name][2] # <<>>
    /\ ret.value = Concat(appended[ret.file_name])

----------------------------------------------------------------------------
(* get_weather_alerts and format_weather_alert, mcp_server.py lines 185-211 *)

\* the keys format_weather_alert reads, with the field each one fills
AlertFields ==
    <<[field |-> "Event", key |-> "event"],
      [field |-> "Area", key |-> "areaDesc"],
      [field |-> "Severity", key |-> "severity"],
      [field |-> "Description", key |-> "description"],
      [field |-> "Instruction", key |-> "instruction"]>>

AlertKeys == {AlertFields[i].key : i \in DOMAIN AlertFields}

\* dict.get(key, default)
dict_get(d, key, default) == IF key \in DOMAIN d THEN d[key] ELSE default

NoAlert == [Event |-> "", Area |-> "", Severity |-> "", Description |-> "",
            Instruction |-> ""]

\* variant: the area is looked up under "area", a key the upstream never sends
format_weather_alert_area(feature) ==
    IF ~ feature.has_properties
    THEN [raised |-> TRUE, alert |-> NoAlert]
    ELSE [raised |-> FALSE,
          alert |-> [Event       |-> dict_get(feature.properties, "event", "Unknown"),
                     Area        |-> dict_get(feature.properties, "area", "Unknown"),
                     Severity    |-> dict_get(feature.properties, "severity", "Unknown"),
                     Description |-> dict_get(feature.properties, "description", "Unknown"),
                     Instruction |-> dict_get(feature.properties, "instruction", "Unknown")]]

\* feature.get("properties") is None when the feature has no properties,
\* and None has no get: AttributeError
format_weather_alert(feature) ==
    IF ~ feature.has_properties
    THEN [raised |-> TRUE, alert |-> NoAlert]
    ELSE [raised |-> FALSE,
          alert |-> [Event       |-> dict_get(feature.properties, "event", "Unknown"),
                     Area        |-> dict_get(feature.properties, "areaDesc", "Unknown"),
                     Severity    |-> dict_get(feature.properties, "severity", "Unknown"),
                     Description |-> dict_get(feature.properties, "description", "Unknown"),
                     Instruction |-> dict_get(feature.properties, "instruction", "Unknown")]]

\* Response.raise_for_status raises HTTPError for the 4xx and 5xx statuses
raise_for_status(status) == 400 <= status /\ status < 600

WeatherNoRet == [op |-> "none", state |-> "", response |-> <<>>, status |-> "",
                 alerts |-> <<>>, error |-> [state |-> "", message |-> ""]]

WeatherError(state, response, message) ==
    [WeatherNoRet EXCEPT !.op = "get_weather_alerts", !.state = state,
                         !.response = <<response>>, !.status = "ValueError",
                         !.error = [state |-> state, message |-> message]]

\* response: what requests.get meets for the state's URL
get_weather_alerts(state) ==
    /\ n_calls < MaxWeatherCalls
    /\ n_calls' = n_calls + 1
    /\ LET response == upstream IN ret' =
          IF ~ response.connected
          THEN WeatherError(state, response, "ConnectionError")
          ELSE IF raise_for_status(response.status_code)
          THEN WeatherError(state, response, "HTTPError")
          ELSE IF ~ response.is_json
          THEN WeatherError(state, response, "JSONDecodeError")
          ELSE IF ~ response.has_features
          THEN WeatherError(state, response, "KeyError")
          ELSE LET formatted == [i \in DOMAIN response.features |->
                                    format_weather_alert(response.features[i])]
               IN  IF \E i \in DOMAIN formatted : formatted[i].raised
                   THEN WeatherError(state, response, "AttributeError")
                   ELSE [WeatherNoRet EXCEPT
                            !.op = "get_weather_alerts", !.state = state,
                            !.response = <<response>>, !.status = "ok",
                            !.alerts = [i \in DOMAIN formatted |-> formatted[i].alert]]
    /\ UNCHANGED <<doc_vars, todo_vars, file_vars, upstream>>

\* the value the upstream gives for a key it sends
UpstreamValue(key) ==
    CASE key = "event"       -> "Flood Warning"
      [] key = "areaDesc"    -> "Cook, IL"
      [] key = "severity"    -> "Severe"
      [] key = "description" -> "River above flood stage"
      [] key = "instruction" -> "Move to higher ground"
      [] OTHER               -> "Flood Warning issued"

\* the features an upstream may send: without a properties object, or with
\* one holding any of the five keys and one key the projection ignores; one
\* feature holds every key with a null instruction
Features ==
    {[has_properties |-> FALSE, properties |-> <<>>]} \cup
    {[has_properties |-> TRUE,
      properties |-> [k \in K \cup {"headline"} |-> UpstreamValue(k)]] :
        K \in SUBSET AlertKeys} \cup
    {[has_properties |-> TRUE,
      properties |-> [k \in AlertKeys |->
                        IF k = "instruction" THEN None ELSE UpstreamValue(k)]]}

RECURSIVE SeqsUpTo(_, _)
SeqsUpTo(S, n) ==
    IF n = 0 THEN {<<>>}
    ELSE LET shorter == SeqsUpTo(S, n - 1)
         IN  shorter \cup {Append(q, x) : q \in {r \in shorter : Len(r) = n - 1}, x \in S}

StatusCodes == {200, 300, 404, 503}

Responses ==
    {[connected |-> FALSE, status_code |-> 0, is_json |-> FALSE, has_features |-> FALSE,
      features |-> <<>>]} \cup
    {[connected |-> TRUE, status_code |-> c, is_json |-> FALSE, has_features |-> FALSE,
      features |-> <<>>] : c \in StatusCodes} \cup
    {[connected |-> TRUE, status_code |-> c, is_json |-> TRUE, has_features |-> FALSE,
      features |-> <<>>] : c \in StatusCodes} \cup
    {[connected |-> TRUE, status_code |-> c, is_json |-> TRUE, has_features |-> TRUE,
      features |-> f] : c \in StatusCodes, f \in SeqsUpTo(Features, MaxFeatures)}

States == {"CA", "ZZ"}

InitWeather ==
    /\ DocsAtStart
    /\ TodosIdle
    /\ FilesIdle
    /\ n_calls = 0
    /\ ret = WeatherNoRet
    /\ upstream \in Responses

NextWeather == \E st \in States : get_weather_alerts(st)

SpecWeather == InitWeather /\ [][NextWeather]_vars

----------------------------------------------------------------------------
(* Properties of the weather alert lookup *)

IsWeather == ret.op = "get_weather_alerts"

HasKey(feature, key) == feature.has_properties /\ key \in DOMAIN feature.properties

\* alerts holds one alert per feature, in order, each field the upstream
\* value of its key or "Unknown" when the upstream holds no such value
IsProjection(features, alerts) ==
    /\ Len(alerts) = Len(features)
    /\ \A i \in DOMAIN features : \A j \in DOMAIN AlertFields :
          alerts[i][AlertFields[j].field] =
             IF HasKey(features[i], AlertFields[j].key)
             THEN features[i].properties[AlertFields[j].key]
             ELSE "Unknown"

IsWrappedError(message) ==
    /\ ret.status = "ValueError"
    /\ ret.error = [state |-> ret.state, message |-> message]

====
